---- MODULE Spec2Model ----
(***************************************************************************)
(* Model of src/inspect_redis.py: the Redis inspection tool of the         *)
(* LiteLLM proxy.  One behaviour is one invocation of main().              *)
(*                                                                         *)
(* Strings that the program takes apart (keys, the namespace, category     *)
(* prefixes) are sequences of one-character strings.  Stored payloads,     *)
(* which the program only parses as JSON, slices and measures, are texts   *)
(* [ch, len]: the character ch repeated len times.  A text of digits "1"   *)
(* is a JSON number, a text of "x" is not JSON.                            *)
(***************************************************************************)
EXTENDS Integers, Sequences, FiniteSets, TLC

VARIABLES
    pc,          \* position of the run in main() / inspect_key()
    conn,        \* the store connection: "none", "open" or "closed"
    exit_code,   \* -1 while running, then the process exit code
    argv,        \* sys.argv[1:], a sequence of keys
    store,       \* the Redis keyspace: key -> [type, ttl, val]
    info,        \* the store's INFO sections: [memory, stats]
    cmds,        \* the commands issued so far, in order
    out,         \* the report printed so far, one record per print
    keys,        \* main: result of r.keys(pattern)
    key_groups,  \* main: prefix -> list of keys
    full_key,    \* inspect_key: the resolved key
    key_type,    \* inspect_key: r.type(full_key)
    length       \* inspect_key: r.llen(full_key)

vars == <<pc, conn, exit_code, argv, store, info, cmds, out, keys,
          key_groups, full_key, key_type, length>>

----------------------------------------------------------------------------
(* Bounds of the model *)

MaxKeys == 2        \* keys in the store of a whole run
MaxScan == 3        \* keys handed to the classifier on its own
MaxCount == 4       \* largest hit / miss counter
MaxFields == 11     \* largest hash
MaxItems == 7       \* longest list
MaxMembers == 11    \* largest set
MaxOver == 2        \* longest string is StrPreview + MaxOver characters

(* Program constants *)

StrPreview == 500   \* value[:500]
ElemPreview == 200  \* value[:200], item[:200]
HashPreview == 10   \* list(fields.items())[:10]
SetPreview == 10    \* list(members)[:10]
ListStop == 4       \* r.lrange(full_key, 0, 4)
SamplePreview == 10 \* keys[:10]

----------------------------------------------------------------------------
(* Python strings *)

Min(a, b) == IF a < b THEN a ELSE b

namespace == <<"n", "s">>

Colon == <<":">>

Unknown == <<"u", "n", "k", "n", "o", "w", "n">>

\* code point of a character: the order of Python's str comparison
Ord(c) ==
    CASE c = ":" -> 58
      [] c = "a" -> 97
      [] c = "b" -> 98
      [] c = "k" -> 107
      [] c = "n" -> 110
      [] c = "o" -> 111
      [] c = "s" -> 115
      [] c = "u" -> 117
      [] c = "w" -> 119

RECURSIVE StrLess(_, _)
StrLess(a, b) ==
    IF a = <<>> THEN b # <<>>
    ELSE IF b = <<>> THEN FALSE
    ELSE IF Head(a) = Head(b) THEN StrLess(Tail(a), Tail(b))
    ELSE Ord(Head(a)) < Ord(Head(b))

\* s.startswith(p)
StartsWith(s, p) == Len(p) <= Len(s) /\ SubSeq(s, 1, Len(p)) = p

\* s.find(old): index of the first occurrence, 0 when there is none
Find(s, old) ==
    LET at == {i \in 1..(Len(s) - Len(old) + 1) :
                  SubSeq(s, i, i + Len(old) - 1) = old}
    IN  IF at = {} THEN 0 ELSE CHOOSE i \in at : \A j \in at : i <= j

\* s.replace(old, "", 1)
ReplaceFirst(s, old) ==
    LET i == Find(s, old)
    IN  IF i = 0 THEN s
        ELSE SubSeq(s, 1, i - 1) \o SubSeq(s, i + Len(old), Len(s))

\* s.split(":", 1)
SplitOnce(s) ==
    LET i == Find(s, Colon)
    IN  IF i = 0 THEN <<s>>
        ELSE <<SubSeq(s, 1, i - 1), SubSeq(s, i + 1, Len(s))>>

----------------------------------------------------------------------------
(* Payload texts *)

Text(c, n) == [ch |-> c, len |-> n]

\* value[:] : the slice without its bound
SliceAll(t, k) == t

\* value[:k]
Slice(t, k) == [t EXCEPT !.len = Min(t.len, k)]

\* json.loads(value) succeeds
JsonLoads(t) == t.ch = "1" /\ t.len >= 1

\* json.dumps(json.loads(value), indent=...) of a number: its digits
JsonDumps(t) == t

----------------------------------------------------------------------------
(* The store, as the commands of the run see it *)

\* r.exists(key)
Exists(s, key) == key \in DOMAIN s

\* r.type(key)
TypeOf(s, key) == IF key \in DOMAIN s THEN s[key].type ELSE "none"

\* r.ttl(key)
TtlOf(s, key) == IF key \in DOMAIN s THEN s[key].ttl ELSE -2

\* r.keys(f"{namespace}:*"): the keys the glob pattern matches
Matching(s, ns) == {k \in DOMAIN s : StartsWith(k, ns \o Colon)}

\* the orders in which the store may return a set of keys
Orders(S) ==
    {q \in [1..Cardinality(S) -> S] : \A i, j \in DOMAIN q : q[i] = q[j] => i = j}

Cmd(op, key) == [op |-> op, key |-> key]

NoKey == <<>>

Line(sec, kind, arg) == [sec |-> sec, kind |-> kind, arg |-> arg]

----------------------------------------------------------------------------
(* Formatters *)

FormatTtl(ttl) ==
    IF ttl = -1 THEN [text |-> "No expiration", seconds |-> ttl]
    ELSE IF ttl = -2 THEN [text |-> "Key does not exist", seconds |-> ttl]
    ELSE [text |-> "seconds", seconds |-> ttl]

\* a / b in Python: a quotient, or ZeroDivisionError
Div(a, b) ==
    IF b = 0 THEN [err |-> TRUE, num |-> 0, den |-> 1]
    ELSE [err |-> FALSE, num |-> a, den |-> b]

\* f"{x:.2f}": x in hundredths, rounded to the nearest
Fmt2(x) == (200 * x.num + x.den) \div (2 * x.den)

Units == <<"B", "KB", "MB", "GB", "TB">>

\* format_bytes: divide by 1024 while >= 1024, at most four times
RECURSIVE FormatBytesFrom(_, _, _)
FormatBytesFrom(size, den, u) ==
    IF u = 5 \/ size < 1024 * den
    THEN [unit |-> Units[u], hundredths |-> Fmt2(Div(size, den))]
    ELSE FormatBytesFrom(size, den * 1024, u + 1)

FormatBytes(size) == FormatBytesFrom(size, 1, 1)

----------------------------------------------------------------------------
(* Key classifier: main(), "Group keys by prefix" *)

\* s.replace(old, ""): every occurrence
RECURSIVE ReplaceAll(_, _)
ReplaceAll(s, old) ==
    LET i == Find(s, old)
    IN  IF i = 0 THEN s
        ELSE SubSeq(s, 1, i - 1) \o ReplaceAll(SubSeq(s, i + Len(old), Len(s)), old)

\* as PrefixOf, with key.replace(f"{namespace}:", "") and no count
PrefixOfReplaceAll(key, ns) ==
    LET key_without_ns == ReplaceAll(key, ns \o Colon)
        parts == SplitOnce(key_without_ns)
    IN  IF Len(parts) > 0 THEN parts[1] ELSE Unknown

PrefixOf(key, ns) ==
    LET key_without_ns == ReplaceFirst(key, ns \o Colon)
        parts == SplitOnce(key_without_ns)
    IN  IF Len(parts) > 0 THEN parts[1] ELSE Unknown

RECURSIVE GroupKeys(_, _, _)
GroupKeys(ks, ns, groups) ==
    IF ks = <<>> THEN groups
    ELSE LET key == Head(ks)
             prefix == PrefixOf(key, ns)
             g == IF prefix \in DOMAIN groups THEN groups
                  ELSE groups @@ (prefix :> <<>>)
         IN  GroupKeys(Tail(ks), ns, [g EXCEPT ![prefix] = Append(@, key)])

\* sorted(key_groups.items()): the prefixes in ascending order
RECURSIVE SortedPrefixes(_)
SortedPrefixes(P) ==
    IF P = {} THEN <<>>
    ELSE LET m == CHOOSE x \in P : \A y \in P \ {x} : StrLess(x, y)
         IN  <<m>> \o SortedPrefixes(P \ {m})

GroupLines(groups) ==
    LET order == SortedPrefixes(DOMAIN groups)
    IN  [i \in 1..Len(order) |->
            Line("groups", "group",
                 [prefix |-> order[i], count |-> Len(groups[order[i]])])]

----------------------------------------------------------------------------
(* Statistics *)

\* stats.get(name, 0)
GetOr(d, name, default) == IF name \in DOMAIN d THEN d[name] ELSE default

\* x * 100
Times100(x) == [x EXCEPT !.num = @ * 100]

\* hit_rate = hits / total * 100, without the guard
HitRateUnguarded(hits, misses) == Times100(Div(hits, hits + misses))

\* hit_rate = (hits / total * 100) if total > 0 else 0
HitRate(hits, misses) ==
    LET total == hits + misses
    IN  IF total > 0 THEN Times100(Div(hits, total)) ELSE Div(0, 1)

----------------------------------------------------------------------------
(* The run: connect_redis() and main() *)

Emit(lines) == out' = out \o lines

Issue(c) == cmds' = cmds \o c

Exit(code) == pc' = "done" /\ exit_code' = code

\* connect_redis(): redis.Redis(...), r.ping(); sys.exit(1) on failure
ConnectRedis ==
    /\ pc = "connect"
    /\ Issue(<<Cmd("PING", NoKey)>>)
    /\ \E reply \in {"PONG", "ConnectionError", "Exception"} :
          IF reply = "PONG"
          THEN /\ conn' = "open"
               /\ pc' = "scan"
               /\ UNCHANGED <<exit_code, out>>
          ELSE /\ Emit(<<Line("connect", "error", [cause |-> reply])>>)
               /\ Exit(1)
               /\ UNCHANGED conn
    /\ UNCHANGED <<argv, store, info, keys, key_groups, full_key, key_type, length>>

\* main(): banner, r.keys(pattern), "Found n keys", early return when empty
MainScan ==
    /\ pc = "scan"
    /\ \E ks \in Orders(Matching(store, namespace)) :
          /\ keys' = ks
          /\ Issue(<<Cmd("KEYS", namespace \o Colon \o <<"*">>)>>)
          /\ IF Len(ks) = 0
             THEN /\ Emit(<<Line("banner", "banner", [namespace |-> namespace]),
                             Line("scan", "found", [n |-> Len(ks)]),
                             Line("scan", "no_data", [n |-> 0])>>)
                  /\ Exit(0)
             ELSE /\ Emit(<<Line("banner", "banner", [namespace |-> namespace]),
                             Line("scan", "found", [n |-> Len(ks)])>>)
                  /\ pc' = "groups"
                  /\ UNCHANGED exit_code
    /\ UNCHANGED <<conn, argv, store, info, key_groups, full_key, key_type, length>>

\* main(): group keys by prefix, print the groups sorted
MainGroups ==
    /\ pc = "groups"
    /\ key_groups' = GroupKeys(keys, namespace, <<>>)
    /\ Emit(GroupLines(key_groups'))
    /\ pc' = "samples"
    /\ UNCHANGED <<conn, exit_code, argv, store, info, cmds, keys, full_key,
                   key_type, length>>

SampleCmds(ks) ==
    [i \in 1..(3 * Len(ks)) |->
        Cmd(<<"TYPE", "TTL", "MEMORY USAGE">>[((i - 1) % 3) + 1],
            ks[((i - 1) \div 3) + 1])]

SampleLines(s, ks) ==
    [i \in 1..Len(ks) |->
        Line("samples", "sample",
             [idx |-> i, key |-> ks[i], type |-> TypeOf(s, ks[i]),
              ttl |-> FormatTtl(TtlOf(s, ks[i]))])]

\* main(): the first 10 keys with type and TTL (the MEMORY USAGE reply is
\* printed only when the store gives one; the reply itself is not modelled)
MainSamples ==
    /\ pc = "samples"
    /\ LET first == SubSeq(keys, 1, Min(Len(keys), SamplePreview))
       IN  /\ Issue(SampleCmds(first))
           /\ Emit(SampleLines(store, first) \o
                    (IF Len(keys) > SamplePreview
                     THEN <<Line("samples", "more",
                                 [n |-> Len(keys) - SamplePreview, what |-> "keys"])>>
                     ELSE <<>>))
    /\ pc' = "memory"
    /\ UNCHANGED <<conn, exit_code, argv, store, info, keys, key_groups, full_key,
                   key_type, length>>

\* main(): r.info('memory')
MainMemory ==
    /\ pc = "memory"
    /\ Issue(<<Cmd("INFO", <<"memory">>)>>)
    /\ LET m == info.memory
           used == GetOr(m, "used_memory", 0)
           peak == GetOr(m, "used_memory_peak", 0)
       IN  Emit(<<Line("memory", "used", FormatBytes(used)),
                   Line("memory", "peak", FormatBytes(peak))>> \o
                 (IF "maxmemory" \in DOMAIN m /\ m["maxmemory"] > 0
                  THEN <<Line("memory", "max", FormatBytes(m["maxmemory"])),
                         Line("memory", "usage",
                              [hundredths |->
                                  Fmt2(Times100(Div(used, m["maxmemory"])))])>>
                  ELSE <<>>))
    /\ pc' = "stats"
    /\ UNCHANGED <<conn, exit_code, argv, store, info, keys, key_groups, full_key,
                   key_type, length>>

\* main(): r.info('stats'), hit rate; then inspect_key() or the usage text
MainStats ==
    /\ pc = "stats"
    /\ Issue(<<Cmd("INFO", <<"stats">>)>>)
    /\ LET hits == GetOr(info.stats, "keyspace_hits", 0)
           misses == GetOr(info.stats, "keyspace_misses", 0)
           hit_rate == HitRate(hits, misses)
       IN  IF hit_rate.err
           THEN /\ Emit(<<Line("fatal", "traceback", [cause |-> "ZeroDivisionError"])>>)
                /\ Exit(1)
           ELSE /\ Emit(<<Line("stats", "hits", [n |-> hits]),
                           Line("stats", "misses", [n |-> misses]),
                           Line("stats", "hit_rate", [hundredths |-> Fmt2(hit_rate)]),
                           Line("stats", "commands",
                                [n |-> GetOr(info.stats, "total_commands_processed", 0)])>>
                          \o (IF Len(argv) > 0 THEN <<>>
                              ELSE <<Line("usage", "usage", [n |-> 0])>>))
                /\ IF Len(argv) > 0
                   THEN pc' = "inspect" /\ UNCHANGED exit_code
                   ELSE Exit(0)
    /\ UNCHANGED <<conn, argv, store, info, keys, key_groups, full_key, key_type, length>>

----------------------------------------------------------------------------
(* inspect_key() *)

\* r.get(key): <<value>>, or <<>> for None
GetReply(s, key) == IF key \in DOMAIN s THEN <<s[key].val[1]>> ELSE <<>>

\* r.hgetall(key), r.lrange(key, 0, -1), r.smembers(key): empty when absent
ValOf(s, key) == IF key \in DOMAIN s THEN s[key].val ELSE <<>>

\* r.lrange(key, 0, stop)
LRange(s, key, stop) ==
    LET v == ValOf(s, key) IN SubSeq(v, 1, Min(Len(v), stop + 1))

\* try: json.loads / json.dumps   except: value[:limit]
Render(value, limit) ==
    IF JsonLoads(value)
    THEN [json |-> TRUE, shown |-> JsonDumps(value)]
    ELSE [json |-> FALSE, shown |-> Slice(value, limit)]

\* full_key = f"{namespace}:{key}" if not key.startswith(namespace) else key
FullKey(key, ns) == IF ~StartsWith(key, ns) THEN ns \o Colon \o key ELSE key

\* inspect_key(): resolve the key, r.exists(); return when absent
InspectKey ==
    /\ pc = "inspect"
    /\ full_key' = FullKey(argv[1], namespace)
    /\ Issue(<<Cmd("EXISTS", full_key')>>)
    /\ IF ~Exists(store, full_key')
       THEN /\ Emit(<<Line("inspect", "not_exist", [key |-> full_key'])>>)
            /\ Exit(0)
       ELSE /\ pc' = "ik_type"
            /\ UNCHANGED <<exit_code, out>>
    /\ UNCHANGED <<conn, argv, store, info, keys, key_groups, key_type, length>>

\* inspect_key(): key_type = r.type(full_key)
InspectType ==
    /\ pc = "ik_type"
    /\ key_type' = TypeOf(store, full_key)
    /\ Issue(<<Cmd("TYPE", full_key)>>)
    /\ pc' = "ik_ttl"
    /\ UNCHANGED <<conn, exit_code, argv, store, info, out, keys, key_groups,
                   full_key, length>>

\* as InspectTtl, with the expiry removed instead of read: r.persist(full_key)
InspectTtlPersist ==
    /\ pc = "ik_ttl"
    /\ Issue(<<Cmd("PERSIST", full_key)>>)
    /\ store' = [store EXCEPT ![full_key].ttl = -1]
    /\ Emit(<<Line("inspect", "key", [key |-> full_key]),
              Line("inspect", "type", [type |-> key_type]),
              Line("inspect", "ttl", FormatTtl(TtlOf(store', full_key)))>>)
    /\ pc' = "ik_value"
    /\ UNCHANGED <<conn, exit_code, argv, info, keys, key_groups, full_key,
                   key_type, length>>

\* inspect_key(): ttl = r.ttl(full_key), then the header
InspectTtl ==
    /\ pc = "ik_ttl"
    /\ Issue(<<Cmd("TTL", full_key)>>)
    /\ Emit(<<Line("inspect", "key", [key |-> full_key]),
              Line("inspect", "type", [type |-> key_type]),
              Line("inspect", "ttl", FormatTtl(TtlOf(store, full_key)))>>)
    /\ pc' = "ik_value"
    /\ UNCHANGED <<conn, exit_code, argv, store, info, keys, key_groups, full_key,
                   key_type, length>>

\* inspect_key(): key_type == 'string'
InspectString ==
    /\ pc = "ik_value"
    /\ key_type = "string"
    /\ Issue(<<Cmd("GET", full_key)>>)
    /\ LET reply == GetReply(store, full_key)
       IN  IF reply = <<>>
           THEN \* json.loads(None) raises, and so does None[:500] in the handler
                /\ Emit(<<Line("inspect", "value_raw_header", [n |-> StrPreview]),
                          Line("fatal", "traceback", [cause |-> "TypeError"])>>)
                /\ Exit(1)
           ELSE LET value == reply[1]
                    r == Render(value, StrPreview)
                IN  /\ Emit((IF r.json
                             THEN <<Line("inspect", "value_json", [shown |-> r.shown])>>
                             ELSE <<Line("inspect", "value_raw", [shown |-> r.shown])>>
                                  \o (IF value.len > StrPreview
                                      THEN <<Line("inspect", "more",
                                                  [n |-> value.len - StrPreview,
                                                   what |-> "characters"])>>
                                      ELSE <<>>))
                            \o <<Line("inspect", "size", FormatBytes(value.len))>>)
                    /\ Exit(0)
    /\ UNCHANGED <<conn, argv, store, info, keys, key_groups, full_key, key_type, length>>

\* inspect_key(): key_type == 'hash'
InspectHash ==
    /\ pc = "ik_value"
    /\ key_type = "hash"
    /\ Issue(<<Cmd("HGETALL", full_key)>>)
    /\ LET fields == ValOf(store, full_key)
           n == Min(Len(fields), HashPreview)
       IN  Emit(<<Line("inspect", "count", [n |-> Len(fields), what |-> "fields"])>>
                \o [i \in 1..n |->
                       Line("inspect", "field",
                            [idx |-> i, value |-> Render(fields[i], ElemPreview)])]
                \o (IF Len(fields) > HashPreview
                    THEN <<Line("inspect", "more",
                                [n |-> Len(fields) - HashPreview, what |-> "fields"])>>
                    ELSE <<>>))
    /\ Exit(0)
    /\ UNCHANGED <<conn, argv, store, info, keys, key_groups, full_key, key_type, length>>

\* inspect_key(): key_type == 'list', length = r.llen(full_key)
InspectListLen ==
    /\ pc = "ik_value"
    /\ key_type = "list"
    /\ Issue(<<Cmd("LLEN", full_key)>>)
    /\ length' = Len(ValOf(store, full_key))
    /\ Emit(<<Line("inspect", "count", [n |-> length', what |-> "items"])>>)
    /\ pc' = "ik_lrange"
    /\ UNCHANGED <<conn, exit_code, argv, store, info, keys, key_groups, full_key,
                   key_type>>

\* inspect_key(): items = r.lrange(full_key, 0, 4), "First 5 items:"
InspectListRange ==
    /\ pc = "ik_lrange"
    /\ Issue(<<Cmd("LRANGE", full_key)>>)
    /\ LET items == LRange(store, full_key, ListStop)
       IN  Emit(<<Line("inspect", "first_items", [n |-> ListStop + 1])>>
                \o [i \in 1..Len(items) |->
                       Line("inspect", "item",
                            [idx |-> i - 1, value |-> Render(items[i], ElemPreview)])])
    /\ Exit(0)
    /\ UNCHANGED <<conn, argv, store, info, keys, key_groups, full_key, key_type, length>>

\* inspect_key(): key_type == 'set'; the members come in no particular order,
\* so any SetPreview of them may be the ones printed
InspectSet ==
    /\ pc = "ik_value"
    /\ key_type = "set"
    /\ Issue(<<Cmd("SMEMBERS", full_key)>>)
    /\ LET v == ValOf(store, full_key)
           members == {v[i] : i \in DOMAIN v}
           n == Min(Cardinality(members), SetPreview)
       IN  \E shown \in {S \in SUBSET members : Cardinality(S) = n} :
              Emit(<<Line("inspect", "count",
                          [n |-> Cardinality(members), what |-> "members"]),
                     Line("inspect", "members", [shown |-> shown])>>
                   \o (IF Cardinality(members) > SetPreview
                       THEN <<Line("inspect", "more",
                                   [n |-> Cardinality(members) - SetPreview,
                                    what |-> "members"])>>
                       ELSE <<>>))
    /\ Exit(0)
    /\ UNCHANGED <<conn, argv, store, info, keys, key_groups, full_key, key_type, length>>

\* inspect_key(): any other type falls through every branch
InspectOther ==
    /\ pc = "ik_value"
    /\ key_type \notin {"string", "hash", "list", "set"}
    /\ Exit(0)
    /\ UNCHANGED <<conn, argv, store, info, cmds, out, keys, key_groups, full_key,
                   key_type, length>>

\* a store query raises (redis.RedisError): nothing in main() or inspect_key()
\* catches it, the run ends with a traceback and exit code 1
StoreError ==
    /\ pc \in {"scan", "samples", "memory", "stats", "inspect", "ik_type", "ik_ttl",
               "ik_value", "ik_lrange"}
    /\ pc = "ik_value" => key_type \in {"string", "hash", "list", "set"}
    /\ Emit(<<Line("fatal", "traceback", [cause |-> "RedisError"])>>)
    /\ Exit(1)
    /\ UNCHANGED <<conn, argv, store, info, cmds, keys, key_groups, full_key,
                   key_type, length>>

----------------------------------------------------------------------------
(* Inputs of a run *)

Key(suffix) == namespace \o Colon \o suffix

Entry(type, ttl, val) == [type |-> type, ttl |-> ttl, val |-> val]

Fill(n, t) == [i \in 1..n |-> t]

\* set members: n distinct texts
Members(n) == [i \in 1..n |-> Text("x", i)]

\* a stats or memory section; a counter below 0 stands for a missing counter
Section(names, values) ==
    LET present == {i \in DOMAIN names : values[i] >= 0}
    IN  [name \in {names[i] : i \in present} |->
            values[CHOOSE i \in present : names[i] = name]]

Stats(hits, misses) ==
    Section(<<"keyspace_hits", "keyspace_misses", "total_commands_processed">>,
            <<hits, misses, 10>>)

Memory(max) ==
    Section(<<"used_memory", "used_memory_peak", "maxmemory">>, <<2048, 4096, max>>)

StoresOver(ks, entries, n) ==
    UNION {[S -> entries] : S \in {T \in SUBSET ks : Cardinality(T) <= n}}

InitRun(stores, args, infos) ==
    /\ pc = "connect"
    /\ conn = "none"
    /\ exit_code = -1
    /\ argv \in args
    /\ store \in stores
    /\ info \in infos
    /\ cmds = <<>>
    /\ out = <<>>
    /\ keys = <<>>
    /\ key_groups = <<>>
    /\ full_key = <<>>
    /\ key_type = "none"
    /\ length = 0

(* whole runs, either mode, over small stores *)

RunKeys == {Key(<<>>), Key(<<"a">>), Key(<<"a", ":", "b">>), <<"n", "s", "a">>}

RunEntries ==
    {Entry("string", -1, <<Text("x", 3)>>),
     Entry("hash", 90, <<Text("x", 3), Text("1", 2)>>),
     Entry("list", -1, Fill(ListStop + 3, Text("x", 1))),
     Entry("set", 90, Members(2)),
     Entry("zset", -1, <<>>)}

RunArgs ==
    {<<>>, <<<<>>>>, <<<<"a">>>>, <<Key(<<"a">>)>>, <<<<"n", "s", "a">>>>,
     <<<<"n", "s">>>>, <<<<"b">>>>}

RunInfos ==
    {[memory |-> Memory(0), stats |-> Stats(-1, -1)],
     [memory |-> Memory(8192), stats |-> Stats(3, 1)]}

Init == InitRun(StoresOver(RunKeys, RunEntries, MaxKeys), RunArgs, RunInfos)

NextOverview ==
    \/ ConnectRedis
    \/ MainScan
    \/ MainGroups
    \/ MainSamples
    \/ MainMemory
    \/ MainStats

NextInspect ==
    \/ InspectKey
    \/ InspectType
    \/ InspectTtl
    \/ InspectString
    \/ InspectHash
    \/ InspectListLen
    \/ InspectListRange
    \/ InspectSet
    \/ InspectOther

Next == NextOverview \/ NextInspect \/ StoreError

Spec == Init /\ [][Next]_vars

(* the classifier over every scan of up to MaxScan keys of the namespace *)

SuffixChars == {":", "a", "b"}

ClassifyKeys ==
    {Key(<<>>), Key(Key(<<"a">>))}
        \cup {Key(<<c>>) : c \in SuffixChars}
        \cup {Key(<<c, d>>) : c \in SuffixChars, d \in SuffixChars}

PlainEntry == Entry("string", -1, <<Text("x", 3)>>)

PlainInfo == [memory |-> Memory(0), stats |-> Stats(3, 1)]

InitClassify ==
    InitRun(StoresOver(ClassifyKeys, {PlainEntry}, MaxScan), {<<>>}, {PlainInfo})

SpecClassify == InitClassify /\ [][NextOverview]_vars

(* the statistics over every pair of counters, present or missing *)

Counters == -1..MaxCount

InitStats ==
    InitRun({Key(<<"a">>) :> PlainEntry}, {<<>>},
            {[memory |-> Memory(0), stats |-> Stats(h, m)] :
                h \in Counters, m \in Counters})

SpecStats == InitStats /\ [][NextOverview]_vars

(* inspect mode on one key, over values of every type and size *)

StrLens == {0, 1, StrPreview + 100} \cup ((StrPreview - 1)..(StrPreview + MaxOver))

LongRaw == Text("x", ElemPreview + 1)

LongJson == Text("1", ElemPreview + 1)

InspectEntries ==
    {Entry("string", -1, <<Text(c, n)>>) : c \in {"1", "x"}, n \in StrLens}
        \cup UNION {{Entry("hash", 90, f) : f \in [1..n -> {LongRaw, LongJson}]} :
                       n \in 0..MaxFields}
        \cup UNION {{Entry("list", -1, f) :
                        f \in [1..n -> {LongRaw, LongJson, Text("x", 1)}]} :
                       n \in 0..MaxItems}
        \cup {Entry("set", -1, Members(n)) : n \in 0..MaxMembers}
        \cup {Entry("zset", -1, <<>>)}

InitInspect ==
    InitRun({Key(<<"a">>) :> e : e \in InspectEntries}, {<<<<"a">>>>}, {PlainInfo})

SpecInspect == InitInspect /\ [][NextOverview \/ NextInspect]_vars

(* inspect mode while another client of the store deletes the inspected key, *)
(* or the key expires, after inspect_key() has found it to exist             *)

\* the key is gone from the store between r.exists(full_key) and one of the
\* later reads r.type, r.ttl, r.get / r.hgetall / r.llen / r.lrange / r.smembers
KeyVanishes ==
    /\ pc \in {"ik_type", "ik_ttl", "ik_value", "ik_lrange"}
    /\ full_key \in DOMAIN store
    /\ store' = [k \in DOMAIN store \ {full_key} |-> store[k]]
    /\ UNCHANGED <<pc, conn, exit_code, argv, info, cmds, out, keys, key_groups,
                   full_key, key_type, length>>

SpecRace == Init /\ [][NextOverview \/ NextInspect \/ KeyVanishes]_vars

----------------------------------------------------------------------------
(* Properties *)

OverviewSections == {"scan", "groups", "samples", "memory", "stats"}

\* the run ended on a connection failure or a propagated store error
Faulted == \E i \in DOMAIN out : out[i].sec \in {"connect", "fatal"}

Finished == pc = "done" /\ ~Faulted

Issued(op) == \E i \in DOMAIN cmds : cmds[i].op = op

Kind(kind) == {i \in DOMAIN out : out[i].kind = kind}

\* C1: a run with a key argument executes the key inspection only: it prints
\* no overview section (scan and count, categories, samples, memory, cache
\* statistics) and issues none of their queries.
C1_InspectOnly ==
    Len(argv) = 1 =>
        /\ \A i \in DOMAIN out : out[i].sec \notin OverviewSections
        /\ ~Issued("KEYS") /\ ~Issued("INFO") /\ ~Issued("MEMORY USAGE")

\* C2: an inspect-mode run on a key that is not in the store, whatever else
\* the store holds, ends with exit code 0 and with the "does not exist" report
\* of that key as its last line, having issued no query on the key but EXISTS.
C2_MissingKeyReported ==
    LET fk == FullKey(argv[1], namespace)
    IN  (Finished /\ Len(argv) = 1 /\ ~Exists(store, fk)) =>
            /\ exit_code = 0
            /\ Len(out) > 0
            /\ out[Len(out)].kind = "not_exist"
            /\ out[Len(out)].arg.key = fk
            /\ \A i \in DOMAIN cmds : cmds[i].key = fk => cmds[i].op = "EXISTS"

\* C3: no run ends with the store connection still open.
C3_ConnectionClosed == pc = "done" => conn # "open"

\* C4: the inspection of a list of length L prints the elements of index
\* 0 .. min(L, 5) - 1 and, exactly when L > 5, a note of L - 5 more elements.
C4_ListPreview ==
    (Finished /\ key_type = "list") =>
        LET L == Len(ValOf(store, full_key))
            notes == {i \in Kind("more") : out[i].arg.what = "items"}
        IN  /\ {out[i].arg.idx : i \in Kind("item")} = 0..(Min(L, 5) - 1)
            /\ Cardinality(Kind("item")) = Min(L, 5)
            /\ L > 5 => \E i \in notes : out[i].arg.n = L - 5
            /\ L <= 5 => notes = {}

ReadCommands ==
    {"PING", "EXISTS", "TYPE", "TTL", "GET", "HGETALL", "LLEN", "LRANGE",
     "SMEMBERS", "KEYS", "MEMORY USAGE", "INFO"}

\* C5: every command a run issues, in either mode, is a read, and no step of
\* the run changes the store's keys, values or TTLs.
C5_ReadOnly ==
    /\ [](\A i \in DOMAIN cmds : cmds[i].op \in ReadCommands)
    /\ [][store' = store]_vars

C5_Witness ==
    /\ Finished
    /\ Len(argv) = 1
    /\ Issued("KEYS") /\ Issued("TTL") /\ Issued("HGETALL")
    /\ TtlOf(store, full_key) = 90

\* C6: the classifier puts the key that is exactly "<namespace>:" in the
\* group "unknown", and in no other group.
C6_EmptyCategoryUnknown ==
    \A p \in DOMAIN key_groups :
        \A i \in DOMAIN key_groups[p] :
            key_groups[p][i] = Key(<<>>) => p = Unknown

KeyQueries ==
    {"EXISTS", "TYPE", "TTL", "GET", "HGETALL", "LLEN", "LRANGE", "SMEMBERS",
     "MEMORY USAGE"}

\* C7: every key the run queries or prints, in the overview and in the
\* inspection, begins with "<namespace>:".
C7_KeysInNamespace ==
    /\ \A i \in DOMAIN out :
          out[i].kind \in {"sample", "not_exist", "key"} =>
              StartsWith(out[i].arg.key, namespace \o Colon)
    /\ \A i \in DOMAIN cmds :
          cmds[i].op \in KeyQueries => StartsWith(cmds[i].key, namespace \o Colon)

Abs(x) == IF x < 0 THEN -x ELSE x

\* C8: the hit rate printed is hits / (hits + misses) x 100 to two decimals
\* (75.00 for 3 hits and 1 miss), 0 when hits + misses = 0, a missing counter
\* counting as 0, and the computation never divides by zero.
C8_HitRate ==
    LET hits == GetOr(info.stats, "keyspace_hits", 0)
        misses == GetOr(info.stats, "keyspace_misses", 0)
        total == hits + misses
    IN  /\ \A i \in Kind("traceback") : out[i].arg.cause # "ZeroDivisionError"
        /\ (pc = "done" /\ conn = "open") => Cardinality(Kind("hit_rate")) = 1
        /\ \A i \in Kind("hit_rate") :
              LET h == out[i].arg.hundredths
              IN  /\ total > 0 => 2 * Abs(h * total - 10000 * hits) <= total
                  /\ total = 0 => h = 0
                  /\ (hits = 3 /\ misses = 1) => h = 7500

C8_Witness ==
    /\ DOMAIN info.stats = {"total_commands_processed"}
    /\ \E i \in Kind("hit_rate") : out[i].arg.hundredths = 0

\* p is the text of key between its leading "<namespace>:" and the next ":"
IsCategory(key, p) ==
    LET rest == SubSeq(key, Len(namespace) + 2, Len(key))
    IN  /\ StartsWith(rest, p)
        /\ \A i \in DOMAIN p : p[i] # ":"
        /\ Len(p) = Len(rest) \/ rest[Len(p) + 1] = ":"

RECURSIVE SumCounts(_)
SumCounts(I) ==
    IF I = {} THEN 0
    ELSE LET i == CHOOSE j \in I : TRUE
         IN  out[i].arg.count + SumCounts(I \ {i})

\* C9: once the keys are grouped, every scanned key is in exactly one group,
\* the one named by its category; every group lists its keys in scan order;
\* the printed counts are the group sizes and sum to the number of keys
\* scanned; and the groups are printed in ascending order of their names.
C9_Partition ==
    pc \notin {"connect", "scan", "groups"} =>
        /\ \A p \in DOMAIN key_groups :
              /\ key_groups[p] # <<>>
              /\ key_groups[p] = SelectSeq(keys, LAMBDA k : IsCategory(k, p))
        /\ \A i \in DOMAIN keys :
              Cardinality({p \in DOMAIN key_groups :
                              \E j \in DOMAIN key_groups[p] :
                                  key_groups[p][j] = keys[i]}) = 1
        /\ {out[i].arg.prefix : i \in Kind("group")} = DOMAIN key_groups
        /\ \A i \in Kind("group") :
              out[i].arg.count = Len(key_groups[out[i].arg.prefix])
        /\ SumCounts(Kind("group")) = Len(keys)
        /\ \A i, j \in Kind("group") :
              i < j => StrLess(out[i].arg.prefix, out[j].arg.prefix)

C9_Witness ==
    /\ pc = "samples"
    /\ Len(keys) = 3
    /\ Cardinality(DOMAIN key_groups) = 2
    /\ \E i \in DOMAIN keys : keys[i] = Key(Key(<<"a">>))

Note(what) == {i \in Kind("more") : out[i].arg.what = what}

\* what every rendering has, whether or not the value is JSON: the number of
\* hash fields and set members shown, and their remainder notes
PreviewCounts ==
    LET val == ValOf(store, full_key)
    IN  /\ key_type = "hash" =>
              /\ Cardinality(Kind("field")) = Min(Len(val), HashPreview)
              /\ Len(val) > HashPreview =>
                    \E i \in Note("fields") : out[i].arg.n = Len(val) - HashPreview
              /\ Len(val) <= HashPreview => Note("fields") = {}
        /\ key_type = "set" =>
              /\ \A i \in Kind("members") :
                    Cardinality(out[i].arg.shown) = Min(Len(val), SetPreview)
              /\ Len(val) > SetPreview =>
                    \E i \in Note("members") : out[i].arg.n = Len(val) - SetPreview
              /\ Len(val) <= SetPreview => Note("members") = {}

\* C10 as stated: the rendering of a string is at most 500 characters with a
\* note of the characters left out, that of a hash at most 10 fields of at
\* most 200 characters each with a note of the fields left out, that of a set
\* at most 10 members with a note of the members left out, for values that
\* parse as JSON and for values that do not.
C10_BoundedPreview ==
    Finished =>
        LET val == ValOf(store, full_key)
        IN  /\ PreviewCounts
            /\ key_type = "string" =>
                  /\ \A i \in Kind("value_json") \cup Kind("value_raw") :
                        out[i].arg.shown.len <= StrPreview
                  /\ val[1].len > StrPreview =>
                        \E i \in Note("characters") :
                            out[i].arg.n = val[1].len - StrPreview
            /\ \A i \in Kind("field") : out[i].arg.value.shown.len <= ElemPreview

\* C10 as amended: the bounds on characters hold for the values that do not
\* parse as JSON; a string or hash value that parses as JSON is printed whole,
\* with no note.  The bounds on the number of fields and members hold always.
C10_BoundedRawPreview ==
    Finished =>
        LET val == ValOf(store, full_key)
        IN  /\ PreviewCounts
            /\ key_type = "string" =>
                  /\ \A i \in Kind("value_raw") :
                        /\ ~JsonLoads(val[1])
                        /\ out[i].arg.shown.len = Min(val[1].len, StrPreview)
                        /\ val[1].len > StrPreview =>
                              \E j \in Note("characters") :
                                  out[j].arg.n = val[1].len - StrPreview
                        /\ val[1].len <= StrPreview => Note("characters") = {}
                  /\ \A i \in Kind("value_json") :
                        /\ JsonLoads(val[1])
                        /\ out[i].arg.shown = val[1]
                        /\ Note("characters") = {}
                  /\ Cardinality(Kind("value_raw") \cup Kind("value_json")) = 1
            /\ \A i \in Kind("field") :
                  LET v == val[out[i].arg.idx]
                  IN  IF JsonLoads(v)
                      THEN out[i].arg.value.shown = v
                      ELSE out[i].arg.value.shown.len = Min(v.len, ElemPreview)

C10_Witness ==
    /\ Finished
    /\ key_type = "string"
    /\ ValOf(store, full_key)[1] = Text("x", 600)
    /\ \E i \in Kind("value_raw") : out[i].arg.shown.len = 500
    /\ \E j \in Note("characters") : out[j].arg.n = 100

\* C11: a run that connected ends with its report and exit code 0, never
\* with the traceback of an unhandled exception, also when the inspected key
\* is deleted or expires between the existence check and the later reads.
C11_NoTraceback ==
    (pc = "done" /\ conn = "open") =>
        /\ exit_code = 0
        /\ Kind("traceback") = {}

====
